---- MODULE Spec2Model ----
(***************************************************************************)
(* Model of the two traversal engines of BFSkinner-scrape:                 *)
(*   - Scraper.scrape          (src/bfskinner_scrape/scraper.py), the      *)
(*     paginator that follows a "next" link;                               *)
(*   - BFSkinnerScraper.crawl  (src/bfskinner_scraper/scraper.py), the     *)
(*     bounded breadth-first crawler.                                      *)
(* An address is the record urlparse() gives for it:                       *)
(*   [scheme, netloc, path, query, fragment].                              *)
(* One step of either machine is one iteration of its while loop.          *)
(***************************************************************************)
EXTENDS Integers, Sequences, FiniteSets

VARIABLES
    \* ------------------------------------------------ the paginated site
    base_url,        \* Scraper.base_url: the address given to __init__
    nextHref,        \* per listing page: href of its first "next" anchor
    start_url,       \* the start_url argument of scrape (NoUrl = omitted)
    \* ------------------------------------------------ Scraper.scrape
    spc,             \* "idle", "loop", "return", "done", "raised"
    next_page,       \* local next_page
    visited_pages,   \* local visited_pages
    seen_articles,   \* local seen_articles
    collected,       \* local collected
    sresult,         \* value returned by scrape (NoResult until it returns)
    serror,          \* exception that left scrape (NoError if none)
    \* ------------------------------------------------ observation of scrape
    fetched,         \* addresses passed to _fetch, in call order
    failedPage,      \* address whose fetch or parse raised
    firstPos,        \* per article url: where its first complete element was
                     \* read: [page: index of the fetch, idx: index on the page]
    firstRec,        \* per article url: record built from that element
    dupKinds,        \* how complete elements repeated an address already
                     \* read: on the "same page", on an "earlier page"
    \* ------------------------------------------------ BFSkinnerScraper
    max_pages,       \* self.max_pages
    request_delay,   \* self.request_delay, as written: "0.5", "-1", "nan"
    site_pages,      \* number of pages of the crawled site
    site_links,      \* the <a href> elements of each page of a site whose
                     \* pages stay as they are, or NoSite: any page content
    visited,         \* self._visited
    crawl_calls,     \* calls of crawl() made on this scraper
    \* ------------------------------------------------ BFSkinnerScraper.crawl
    cpc,             \* "idle", "loop", "done", "raised"
    queue,           \* local queue
    resources,       \* local resources
    cresult,         \* value returned by crawl (NoResult until it returns)
    \* ------------------------------------------------ observation of crawl
    clog,            \* per session.get of this call: address, outcome, records
    refused,         \* the first call of crawl has left a link out of the
                     \* queue because the queue held its address already
    \* ------------------------------------------------ the functions, alone
    fpc,             \* "input", or the function that has been applied
    html_articles,   \* parse_listing: the <article> elements of the document
    html_links,      \* parse_listing: the <a> elements that follow them
    html_anchors,    \* _extract_resources: the <a href> elements of the page
    raw_url,         \* _normalize_url: its argument
    listing,         \* what parse_listing returned: [articles, next_url]
    page_records,    \* what _extract_resources returned
    resource_types,  \* what _classify_resource returned, per anchor
    clean_url        \* what _normalize_url returned

svars == <<base_url, nextHref, start_url, spc, next_page, visited_pages, seen_articles,
           collected, sresult, serror, fetched, failedPage, firstPos,
           firstRec, dupKinds>>

cvars == <<max_pages, request_delay, site_pages, site_links, visited, crawl_calls, cpc, queue, resources,
           cresult, clog, refused>>

fvars == <<fpc, html_articles, html_links, html_anchors, raw_url, listing,
           page_records, resource_types, clean_url>>

vars == <<svars, cvars, fvars>>

----------------------------------------------------------------------------
\* Bounds of the model.

\* number of listing pages of the paginated site
NumPages == 3
\* most article elements on one listing page
MaxArticles == 2
\* number of pages of the crawled site
NumSitePages == 3
\* largest max_pages the crawler is configured with
MaxPagesBound == 3
\* calls of crawl() on one scraper
MaxCrawls == 2
\* pages of the site of the max_pages=1 scenario: a start page and 5 others
MenuSitePages == 6
\* pages of the crawled site whose pages stay as they are
FixedSitePages == 4
\* most links of one page of that site
MaxPageLinks == 2
\* most <a> elements after the articles of a listing document
MaxLinks == 2
\* most <a href> elements of a page handed to _extract_resources alone
MaxAnchors == 3

----------------------------------------------------------------------------
\* Addresses.

Url(s, n, p, q, f) ==
    [scheme |-> s, netloc |-> n, path |-> p, query |-> q, fragment |-> f]

\* None / the empty string: what `not url` accepts.
NoUrl == Url("", "", "", "", "")

\* The empty href, or an anchor without href.
NoRef == NoUrl

PathNames ==
    <<"/", "/page/2", "/page/3", "/page/4", "/page/5", "/page/6", "/page/7",
      "/page/8">>

SiteHost == "example.com"

PageUrl(k) == Url("https", SiteHost, PathNames[k], "", "")

\* The addresses a Scraper is built with: __init__ keeps its argument as it
\* is, "https://example.com" (no path) or "https://example.com/".
BaseUrls == {Url("https", SiteHost, "", "", ""), PageUrl(1)}

\* The listing page a fetch of this address is answered with: the request of
\* an address without path asks for "/".
Served(url) == IF url.path = "" THEN Url(url.scheme, url.netloc, "/", "", "") ELSE url

PageUrls == {PageUrl(k) : k \in 1..NumPages}

\* urllib.parse.urljoin(base, ref), on parsed addresses, for references whose
\* path is empty or absolute.
UrlJoin(base, ref) ==
    IF ref = NoRef THEN base
    ELSE IF ref.scheme # "" /\ ref.scheme # base.scheme THEN ref
    ELSE IF ref.netloc # "" THEN
        Url(base.scheme, ref.netloc, ref.path, ref.query, ref.fragment)
    ELSE IF ref.path = "" THEN
        Url(base.scheme, base.netloc, base.path,
            IF ref.query # "" THEN ref.query ELSE base.query, ref.fragment)
    ELSE Url(base.scheme, base.netloc, ref.path, ref.query, ref.fragment)

\* A path-only reference, as in href="/page/2".
RelRef(p) == Url("", "", p, "", "")

----------------------------------------------------------------------------
\* Listing pages: article elements and the next link.

\* Python's None for an optional text field.
NoneText == "<None>"

\* An <article> element, reduced to what _extract_articles reads from it:
\* whether its <h2> holds an <a>, that anchor's href and flattened text, the
\* flattened text of the <h2>, the flattened text of its first <p>, and its
\* <time> element.
ArticleEl(link, href, ltext, htext, ptext, time, dt, ttext) ==
    [has_link |-> link, href |-> href, link_text |-> ltext, h2_text |-> htext,
     p_text |-> ptext, has_time |-> time, datetime |-> dt, time_text |-> ttext]

ArticleEls ==
    { ArticleEl(TRUE, RelRef("/one"), "One", "One",
                "First page summary.", TRUE, "2020-01-01", "January 1, 2020"),
      ArticleEl(TRUE, Url("https", SiteHost, "/one", "", ""), "One", "One",
                "Duplicate item that should be ignored.", TRUE, "", "January 1, 2020"),
      ArticleEl(TRUE, RelRef("/two"), "Two", "Two",
                "Brand new content.", FALSE, "", ""),
      ArticleEl(TRUE, NoRef, "Missing href", "Missing href", "", FALSE, "", ""),
      ArticleEl(FALSE, NoRef, "", "No link available", "", FALSE, "", ""),
      ArticleEl(TRUE, RelRef("/two"), "", "Heading only", "", FALSE, "", "") }

\* The html payloads a listing page can carry: up to MaxArticles elements.
ArticleLists == UNION {[1..n -> ArticleEls] : n \in 0..MaxArticles}

\* Those with at most one element.
ShortLists == {<<>>} \cup {<<el>> : el \in ArticleEls}

ArticleRecord(title, url, summary, published) ==
    [title |-> title, url |-> url, summary |-> summary, published |-> published]

\* title = self._text_content(link_el) or self._text_content(title_el)
TitleOf(el) == IF el.link_text # "" THEN el.link_text ELSE el.h2_text

\* published = (time_el.get("datetime") or self._text_content(time_el)) or None
PublishedOf(el) ==
    IF ~el.has_time THEN NoneText
    ELSE IF el.datetime # "" THEN el.datetime
    ELSE IF el.time_text # "" THEN el.time_text
    ELSE NoneText

\* The element passes both `continue` tests of _extract_articles.
Complete(el) == el.has_link /\ TitleOf(el) # "" /\ el.href # NoRef

RecordOf(el) ==
    ArticleRecord(TitleOf(el), UrlJoin(base_url, el.href),
                  IF el.p_text # "" THEN el.p_text ELSE NoneText, PublishedOf(el))

\* Scraper._extract_articles: the loop over root.findall(".//article").
RECURSIVE ExtractLoop(_, _, _)
ExtractLoop(els, articles, seen_urls) ==
    IF els = <<>> THEN articles
    ELSE LET el == Head(els) IN
         IF ~Complete(el) THEN ExtractLoop(Tail(els), articles, seen_urls)
         ELSE LET rec == RecordOf(el) IN
              IF rec.url \in seen_urls
              THEN ExtractLoop(Tail(els), articles, seen_urls)
              ELSE ExtractLoop(Tail(els), Append(articles, rec),
                               seen_urls \cup {rec.url})

extract_articles(els) == ExtractLoop(els, <<>>, {})

\* Scraper._find_next_link, on the href of the first anchor that carries the
\* `next` token and a non-empty href (NoRef when there is none).
find_next_link(href) == IF href = NoRef THEN NoUrl ELSE UrlJoin(base_url, href)

\* The hrefs a next anchor can carry: a path to each page, and the absolute
\* address of the first page.
NextRefs == {RelRef(PathNames[k]) : k \in 1..NumPages} \cup {PageUrl(1)}

\* The next pointer of the listing page at address p.
NextOf(p) == find_next_link(nextHref[Served(p)])

----------------------------------------------------------------------------
\* Scraper.scrape

\* The value a call has returned, if it has returned.
NoResult == [returned |-> FALSE, value |-> <<>>]
Returned(v) == [returned |-> TRUE, value |-> v]

NoError == [type |-> "", text |-> "", url |-> NoUrl, cause |-> ""]

\* raise ScraperError(f"Failed to fetch URL: {url}") from exc
FetchError(url, exc) ==
    [type |-> "ScraperError", text |-> "Failed to fetch URL", url |-> url,
     cause |-> exc]

\* What the except clause of _fetch catches: URLError and its subclass.
WrappedFailures == {"URLError", "HTTPError"}

\* What _fetch lets through: every exception that is not a URLError.  From
\* opener.open: an answer that is not HTTP (BadStatusLine), of an unknown HTTP
\* version (UnknownProtocol) or with a line too long (LineTooLong), any other
\* HTTPException, a connection closed without an answer (RemoteDisconnected),
\* a redirect whose Location is no address (ValueError) or has a bad port
\* (InvalidURL), an address that cannot be encoded (UnicodeError,
\* UnicodeEncodeError).  From response.read(): a read timeout, a short body,
\* a reset connection.  From payload.decode, after the try: an unknown
\* charset (LookupError).  "Exception" stands for every other class: the
\* except clause catches none of them.
UncaughtFailures ==
    {"BadStatusLine", "UnknownProtocol", "LineTooLong", "HTTPException",
     "RemoteDisconnected", "ValueError", "InvalidURL", "UnicodeError",
     "UnicodeEncodeError", "TimeoutError", "IncompleteRead",
     "ConnectionResetError", "LookupError", "Exception"}

FetchFailures == WrappedFailures \cup UncaughtFailures

\* An exception that is not caught leaves scrape as it is.
UncaughtError(exc) == [type |-> exc, text |-> "", url |-> NoUrl, cause |-> ""]

\* What leaves _fetch(url) when its fetch fails with exc.
FetchRaises(url, exc) ==
    IF exc \in WrappedFailures THEN FetchError(url, exc) ELSE UncaughtError(exc)

\* raise ScraperError("Unable to parse listing HTML") from exc
ParseError ==
    [type |-> "ScraperError", text |-> "Unable to parse listing HTML",
     url |-> NoUrl, cause |-> "ParseError"]

\* What parse_listing raises: ET.ParseError, which _parse_html wraps, and
\* what it lets through: the UnicodeEncodeError of ET.fromstring on a lone
\* surrogate, the ValueError of urljoin on a malformed href; "Exception"
\* stands for every other class.
ParseFailures == {"ParseError", "UnicodeEncodeError", "ValueError", "Exception"}

\* What leaves parse_listing(html) when it fails with exc.
ParseRaises(exc) == IF exc = "ParseError" THEN ParseError ELSE UncaughtError(exc)

\* while next_page and next_page not in visited_pages
LoopCond(page, pages) == page # NoUrl /\ page \notin pages

\* visited_pages.add(next_page), without the effect
VisitedAddDropped(pages, page) == pages

\* visited_pages.add(next_page)
VisitedAdd(pages, page) == pages \cup {page}

\* the break test, without its visited_pages part
BreakCondNoCycle(possible_next, pages) == possible_next = NoUrl

\* if not possible_next or possible_next in visited_pages: break
BreakCond(possible_next, pages) ==
    possible_next = NoUrl \/ possible_next \in pages

\* the for loop over articles, without the seen_articles test
MergeArticlesAll(articles, coll, seen) ==
    [collected |-> coll \o articles,
     seen_articles |-> seen \cup {articles[i].url : i \in 1..Len(articles)}]

\* the for loop over articles, inserting new records at the front
RECURSIVE MergeArticlesFront(_, _, _)
MergeArticlesFront(articles, coll, seen) ==
    IF articles = <<>> THEN [collected |-> coll, seen_articles |-> seen]
    ELSE LET article == Head(articles) IN
         IF article.url \in seen
         THEN MergeArticlesFront(Tail(articles), coll, seen)
         ELSE MergeArticlesFront(Tail(articles), <<article>> \o coll,
                                 seen \cup {article.url})

\* the for loop over articles, with the seen_articles test
RECURSIVE MergeArticles(_, _, _)
MergeArticles(articles, coll, seen) ==
    IF articles = <<>> THEN [collected |-> coll, seen_articles |-> seen]
    ELSE LET article == Head(articles) IN
         IF article.url \in seen
         THEN MergeArticles(Tail(articles), coll, seen)
         ELSE MergeArticles(Tail(articles), Append(coll, article),
                            seen \cup {article.url})

\* The addresses complete article elements resolve to.
ArticleUrls == {UrlJoin(base_url, el.href) : el \in {e \in ArticleEls : Complete(e)}}

NoRecord == ArticleRecord("", NoUrl, NoneText, NoneText)

\* Index in els of the first complete element whose address is u (0: none).
FirstIdx(els, u) ==
    LET hits == {i \in 1..Len(els) : Complete(els[i]) /\ RecordOf(els[i]).url = u}
    IN IF hits = {} THEN 0 ELSE CHOOSE i \in hits : \A j \in hits : i <= j

NoPos == [page |-> 0, idx |-> 0]

\* Document position a comes before document position b.
Precedes(a, b) == a.page < b.page \/ (a.page = b.page /\ a.idx < b.idx)

\* How the complete elements of els repeat an address, given the positions
\* pos of the addresses read on earlier pages.
DupKindsOf(els, pos) ==
    {"same page" : i \in {j \in 1..Len(els) :
        /\ Complete(els[j])
        /\ FirstIdx(els, RecordOf(els[j]).url) < j}}
    \cup
    {"earlier page" : i \in {j \in 1..Len(els) :
        /\ Complete(els[j])
        /\ pos[RecordOf(els[j]).url] # NoPos}}

\* Fetches the model allows before it stops counting (never reached by scrape).
FetchCap == NumPages + 2

StartUrls == {NoUrl, PageUrl(2)}

\* A Scraper on which scrape has not been called.
ScrapeIdle ==
    /\ spc = "idle"
    /\ next_page = NoUrl
    /\ visited_pages = {}
    /\ seen_articles = {}
    /\ collected = <<>>
    /\ sresult = NoResult
    /\ serror = NoError
    /\ fetched = <<>>
    /\ failedPage = NoUrl
    /\ firstPos = [u \in ArticleUrls |-> NoPos]
    /\ firstRec = [u \in ArticleUrls |-> NoRecord]
    /\ dupKinds = {}

\* Every site: each page has any next href, or none.
SiteInit ==
    /\ base_url \in BaseUrls
    /\ nextHref \in [PageUrls -> NextRefs \cup {NoRef}]
    /\ start_url \in StartUrls

\* The site whose pages follow each other, the last one having no next link
\* or one back to the first page.
ChainInit ==
    /\ base_url \in BaseUrls
    /\ nextHref \in
          {[p \in PageUrls |->
              IF \E k \in 1..(NumPages - 1) : p = PageUrl(k)
              THEN RelRef(PathNames[(CHOOSE k \in 1..(NumPages - 1) : p = PageUrl(k)) + 1])
              ELSE last] : last \in {NoRef, PageUrl(1)}}
    /\ start_url \in StartUrls

\* scrape(start_url=...), up to the while loop
ScrapeStart ==
    /\ spc = "idle"
    /\ spc' = "loop"
    /\ next_page' = (IF start_url # NoUrl THEN start_url ELSE base_url)
    /\ visited_pages' = {}
    /\ seen_articles' = {}
    /\ collected' = <<>>
    /\ UNCHANGED <<cvars, fvars>>
    /\ UNCHANGED <<base_url, nextHref, start_url, sresult, serror, fetched, failedPage,
                   firstPos, firstRec, dupKinds>>

\* One iteration whose fetch and parse succeed; els are the page's <article>s.
ScrapePage(els) ==
    /\ spc = "loop"
    /\ LoopCond(next_page, visited_pages)
    /\ Len(fetched) < FetchCap
    /\ LET added == VisitedAdd(visited_pages, next_page)
           articles == extract_articles(els)
           possible_next == NextOf(next_page)
           merged == MergeArticles(articles, collected, seen_articles)
       IN /\ visited_pages' = added
          /\ fetched' = Append(fetched, next_page)
          /\ collected' = merged.collected
          /\ seen_articles' = merged.seen_articles
          /\ IF BreakCond(possible_next, added)
             THEN spc' = "return" /\ next_page' = next_page
             ELSE spc' = "loop" /\ next_page' = possible_next
    /\ firstPos' = [u \in ArticleUrls |->
                      IF firstPos[u] = NoPos /\ FirstIdx(els, u) # 0
                      THEN [page |-> Len(fetched) + 1, idx |-> FirstIdx(els, u)]
                      ELSE firstPos[u]]
    /\ firstRec' = [u \in ArticleUrls |->
                      IF firstPos[u] = NoPos /\ FirstIdx(els, u) # 0
                      THEN RecordOf(els[FirstIdx(els, u)]) ELSE firstRec[u]]
    /\ dupKinds' = dupKinds \cup DupKindsOf(els, firstPos)
    /\ UNCHANGED <<cvars, fvars>>
    /\ UNCHANGED <<base_url, nextHref, start_url, sresult, serror, failedPage>>

\* One iteration whose _fetch raises: ScraperError when opener.open raised
\* URLError or its subclass HTTPError, the exception itself otherwise.
ScrapeFetchFails(kind) ==
    /\ spc = "loop"
    /\ LoopCond(next_page, visited_pages)
    /\ Len(fetched) < FetchCap
    /\ visited_pages' = VisitedAdd(visited_pages, next_page)
    /\ fetched' = Append(fetched, next_page)
    /\ spc' = "raised"
    /\ serror' = FetchRaises(next_page, kind)
    /\ failedPage' = next_page
    /\ UNCHANGED <<cvars, fvars>>
    /\ UNCHANGED <<base_url, nextHref, start_url, next_page, seen_articles, collected,
                   sresult, firstPos, firstRec, dupKinds>>

\* One iteration whose parse_listing raises: ScraperError when ET.fromstring
\* rejects the payload, the exception itself otherwise.
ScrapeParseFails(kind) ==
    /\ spc = "loop"
    /\ LoopCond(next_page, visited_pages)
    /\ Len(fetched) < FetchCap
    /\ visited_pages' = VisitedAdd(visited_pages, next_page)
    /\ fetched' = Append(fetched, next_page)
    /\ spc' = "raised"
    /\ serror' = ParseRaises(kind)
    /\ failedPage' = next_page
    /\ UNCHANGED <<cvars, fvars>>
    /\ UNCHANGED <<base_url, nextHref, start_url, next_page, seen_articles, collected,
                   sresult, firstPos, firstRec, dupKinds>>

\* return collected: after break, or when the while test fails
ScrapeReturn ==
    /\ \/ spc = "return"
       \/ spc = "loop" /\ ~LoopCond(next_page, visited_pages)
    /\ spc' = "done"
    /\ sresult' = Returned(collected)
    /\ UNCHANGED <<cvars, fvars>>
    /\ UNCHANGED <<base_url, nextHref, start_url, next_page, visited_pages, seen_articles,
                   collected, serror, fetched, failedPage, firstPos, firstRec,
                   dupKinds>>

----------------------------------------------------------------------------
\* BFSkinnerScraper: addresses, anchors and records.

CrawlHost == "www.bfskinner.org"

\* self.base_url = base_url.rstrip("/") + "/"
crawl_base == Url("https", CrawlHost, "/", "", "")

SitePage(k) == Url("https", CrawlHost, PathNames[k], "", "")

\* An <a href> element, reduced to what the crawler reads from it: its href,
\* its flattened text, and the flattened text of its nearest p/li/div.
Anchor(href, text, parent) == [href |-> href, text |-> text, parent_text |-> parent]

\* A plain navigation link to page k of the site.
NavLink(k) == Anchor(RelRef(PathNames[k]), "Page", "")

PdfAnchor ==
    Anchor(Url("https", "cdn.example.org", "/files/handout.pdf", "", ""),
           "Handout", "Print the handout")
MailAnchor == Anchor(Url("mailto", "", "info@bfskinner.org", "", ""), "Contact us", "")

\* The anchors a page of an n-page site can carry, in a document order: a
\* link to each page, then a file and a mail link.
SiteAnchors(n) == [i \in 1..n |-> NavLink(i)] \o <<PdfAnchor, MailAnchor>>

\* The elements of seq at the positions in idx, in order.
RECURSIVE SubSeqAt(_, _)
SubSeqAt(seq, idx) ==
    IF idx = {} THEN <<>>
    ELSE LET i == CHOOSE x \in idx : \A y \in idx : x <= y
         IN <<seq[i]>> \o SubSeqAt(seq, idx \ {i})

Reverse(seq) == [i \in 1..Len(seq) |-> seq[Len(seq) + 1 - i]]

\* The anchor lists of a page: any choice among SiteAnchors, in that order or
\* in the opposite one.
AnchorLists(n) ==
    LET all == SiteAnchors(n)
        picks == {SubSeqAt(all, idx) : idx \in SUBSET (1..Len(all))}
    IN picks \cup {Reverse(a) : a \in picks}

\* The pages of a site are not fixed: each fetch draws the content of its page.
NoSite == <<>>

\* The sites of n pages whose pages stay as they are: each page links, in
\* document order, at most MaxPageLinks pages other than itself.
FixedSites(n) ==
    LET pages == {SitePage(k) : k \in 1..n}
        lists == {SubSeqAt([i \in 1..n |-> NavLink(i)], idx) :
                     idx \in {x \in SUBSET (1..n) : Cardinality(x) <= MaxPageLinks}}
    IN {site \in [pages -> lists] :
           \A k \in 1..n : \A i \in 1..Len(site[SitePage(k)]) :
               site[SitePage(k)][i] # NavLink(k)}

\* The anchor lists of the pages of the two sites of ConfigInit.
SmallSiteLists == AnchorLists(NumSitePages)
MenuSiteLists == AnchorLists(MenuSitePages)
PageAnchorLists(n) == IF n = NumSitePages THEN SmallSiteLists ELSE MenuSiteLists

PageTitles == {"B. F. Skinner Foundation"}

RESOURCE_EXTENSIONS ==
    {".pdf", ".doc", ".docx", ".ppt", ".pptx", ".xls", ".xlsx", ".zip", ".mp3",
     ".mp4", ".wav", ".m4a"}

KEYWORD_HINTS ==
    {"download", "free", "resource", "handout", "worksheet", "guide", "ebook",
     "podcast", "video", "audio", "pdf"}

\* The suffixes of path.lower() that start with a dot.
LowerSuffixes(path) ==
    IF path \in {"/files/handout.pdf", "/files/HANDOUT.PDF"} THEN {".pdf"} ELSE {}

\* ext.lstrip(".")
ExtTag(ext) ==
    CASE ext = ".pdf" -> "pdf" [] ext = ".doc" -> "doc" [] ext = ".docx" -> "docx"
      [] ext = ".ppt" -> "ppt" [] ext = ".pptx" -> "pptx" [] ext = ".xls" -> "xls"
      [] ext = ".xlsx" -> "xlsx" [] ext = ".zip" -> "zip" [] ext = ".mp3" -> "mp3"
      [] ext = ".mp4" -> "mp4" [] ext = ".wav" -> "wav" [] ext = ".m4a" -> "m4a"

\* The words of text.lower() that occur in it as substrings, among the hints.
LowerSubstrings(text) ==
    CASE text = "Handout" -> {"handout"}
      [] text = "Download the free guide" -> {"download", "free", "guide"}
      [] text = "Download PDF" -> {"download", "pdf"}
      [] OTHER -> {}

\* BFSkinnerScraper._is_internal_url
is_internal_url(url) ==
    url.netloc = crawl_base.netloc \/ (url.netloc = "" /\ url.path # "")

\* _normalize_url with a scheme default that the next call changes again
normalize_url_rescheming(url) ==
    IF url.netloc # "" THEN
        Url(IF url.scheme = "" THEN "http"
            ELSE IF url.scheme = "http" THEN "https" ELSE url.scheme,
            url.netloc, IF url.path # "" THEN url.path ELSE "/", url.query, "")
    ELSE url

\* BFSkinnerScraper._normalize_url
normalize_url(url) ==
    IF url.netloc # "" THEN
        Url(IF url.scheme # "" THEN url.scheme ELSE "https", url.netloc,
            IF url.path # "" THEN url.path ELSE "/", url.query, "")
    ELSE url

\* BFSkinnerScraper._classify_resource (NoneText: not a resource)
\* parsed.scheme.startswith("http") is, on the schemes of the model (none,
\* http, https, ftp, mailto), membership in {http, https}.
classify_resource(resource_url, anchor_text) ==
    IF resource_url.scheme \notin {"http", "https"} THEN NoneText
    ELSE LET exts == LowerSuffixes(resource_url.path) \cap RESOURCE_EXTENSIONS IN
         IF exts # {} THEN ExtTag(CHOOSE ext \in exts : TRUE)
         ELSE IF LowerSubstrings(anchor_text) \cap KEYWORD_HINTS # {}
                 /\ is_internal_url(resource_url)
              THEN "page"
              ELSE NoneText

\* BFSkinnerScraper._derive_description
derive_description(anchor) ==
    IF anchor.parent_text # "" THEN anchor.parent_text
    ELSE IF anchor.text # "" THEN anchor.text
    ELSE NoneText

ResourceRecord(page_url, resource_url, title, type, page_title, description) ==
    [page_url |-> page_url, resource_url |-> resource_url,
     resource_title |-> title, resource_type |-> type,
     page_title |-> page_title, description |-> description]

\* the membership test, never finding anything
InSeqNever(x, seq) == FALSE

\* x in seq: `record not in resources`, `link not in queue`
InSeq(x, seq) == \E i \in 1..Len(seq) : seq[i] = x

\* BFSkinnerScraper._extract_resources: the loop over the anchors
RECURSIVE ResourceLoop(_, _, _, _)
ResourceLoop(page_url, page_title, anchors, found) ==
    IF anchors = <<>> THEN found
    ELSE LET anchor == Head(anchors)
             resource_url == UrlJoin(page_url, anchor.href)
             resource_type == classify_resource(resource_url, anchor.text)
             record ==
                 ResourceRecord(
                     normalize_url(page_url), normalize_url(resource_url),
                     IF anchor.text # "" THEN anchor.text
                     ELSE IF page_title # NoneText THEN page_title ELSE "",
                     resource_type, page_title, derive_description(anchor))
         IN IF anchor.href = NoRef \/ resource_type = NoneText
            THEN ResourceLoop(page_url, page_title, Tail(anchors), found)
            ELSE IF InSeq(record, found)
            THEN ResourceLoop(page_url, page_title, Tail(anchors), found)
            ELSE ResourceLoop(page_url, page_title, Tail(anchors),
                              Append(found, record))

extract_resources(page_url, page_title, anchors) ==
    ResourceLoop(page_url, page_title, anchors, <<>>)

\* BFSkinnerScraper._extract_internal_links: the addresses it yields, in order
RECURSIVE extract_internal_links(_, _)
extract_internal_links(page_url, anchors) ==
    IF anchors = <<>> THEN <<>>
    ELSE LET href == Head(anchors).href
             absolute == UrlJoin(page_url, href)
             cleaned == normalize_url(absolute)
             rest == extract_internal_links(page_url, Tail(anchors))
         IN IF href # NoRef /\ is_internal_url(absolute) /\ cleaned # NoUrl
            THEN <<cleaned>> \o rest
            ELSE rest

\* crawl: for link in links, without the `link not in queue` test
RECURSIVE EnqueueUnqueued(_, _, _)
EnqueueUnqueued(links, seen, q) ==
    IF links = <<>> THEN q
    ELSE LET link == Head(links) IN
         IF link \notin seen
         THEN EnqueueUnqueued(Tail(links), seen, Append(q, link))
         ELSE EnqueueUnqueued(Tail(links), seen, q)

\* crawl: for link in links: if link not in self._visited and link not in
\* queue: queue.append(link)
RECURSIVE Enqueue(_, _, _)
Enqueue(links, seen, q) ==
    IF links = <<>> THEN q
    ELSE LET link == Head(links) IN
         IF link \notin seen /\ ~InSeq(link, q)
         THEN Enqueue(Tail(links), seen, Append(q, link))
         ELSE Enqueue(Tail(links), seen, q)

\* The loop over links leaves out a link that is not visited because the
\* queue holds its address already.
RECURSIVE RefusesQueued(_, _, _)
RefusesQueued(links, seen, q) ==
    IF links = <<>> THEN FALSE
    ELSE LET link == Head(links) IN
         IF link \in seen THEN RefusesQueued(Tail(links), seen, q)
         ELSE IF InSeq(link, q) THEN TRUE
         ELSE RefusesQueued(Tail(links), seen, Append(q, link))

----------------------------------------------------------------------------
\* BFSkinnerScraper.crawl

\* resources.extend(...), leaving out the records of a file already listed
ExtendUnlisted(res, found) ==
    res \o SelectSeq(found, LAMBDA r :
                 \A i \in 1..Len(res) : res[i].resource_url # r.resource_url)

\* resources.extend(self._extract_resources(url, page_title, soup))
Extend(res, found) == res \o found

\* the while test, letting one more page through
CrawlCondOffByOne(q, seen) == q # <<>> /\ Cardinality(seen) <= max_pages

\* while queue and len(self._visited) < self.max_pages
CrawlCond(q, seen) == q # <<>> /\ Cardinality(seen) < max_pages

\* What session.get raises that is not a RequestException: the ValueError of
\* a redirect whose Location is no address; "Exception" stands for every
\* other class, the except clause of crawl catches none of them.
EscapingFailures == {"ValueError", "Exception"}

\* What session.get can do for an address: requests raises InvalidSchema, a
\* RequestException, for anything that is not http(s); for an http(s) address
\* it can also raise what is not a RequestException.
FetchOutcomes(url) ==
    IF url.scheme \in {"http", "https"}
    THEN {"ok", "RequestException", "not_ok", "non_html"} \cup EscapingFailures
    ELSE {"RequestException"}

LogEntry(url, outcome, records) ==
    [url |-> url, outcome |-> outcome, records |-> records]

\* The request_delay argument of __init__, a float that is kept unchecked:
\* the default, no delay, and the floats time.sleep refuses.
DefaultDelay == "0.5"
NoDelay == "0"
Delays == {NoDelay, DefaultDelay, "-1", "nan", "inf"}

\* if self.request_delay: time.sleep(self.request_delay), at the end of an
\* iteration that processed a page: 0 is falsy and nothing is called;
\* time.sleep raises ValueError for a negative delay and for NaN, and
\* OverflowError for infinity; "none" when nothing is raised.
SleepRaises(delay) ==
    CASE delay \in {"-1", "nan"} -> "ValueError"
      [] delay = "inf" -> "OverflowError"
      [] OTHER -> "none"

\* A new BFSkinnerScraper (__init__): nothing visited, crawl not called.
CrawlIdle ==
    /\ visited = {}
    /\ crawl_calls = 0
    /\ cpc = "idle"
    /\ queue = <<>>
    /\ resources = <<>>
    /\ cresult = NoResult
    /\ clog = <<>>
    /\ refused = FALSE

\* The configurations: the small site under every max_pages, and the site
\* whose start page can link to five other pages under max_pages = 1. A
\* scraper without delay takes the steps of one with the default delay: it
\* is tried on the second site only.
ConfigInit ==
    \/ /\ site_pages = NumSitePages
       /\ max_pages \in 0..MaxPagesBound
       /\ request_delay \in Delays \ {NoDelay}
    \/ /\ site_pages = MenuSitePages
       /\ max_pages = 1
       /\ request_delay \in Delays

\* crawl(), up to the while loop
CrawlStart ==
    /\ cpc \in {"idle", "done", "raised"}
    /\ crawl_calls < MaxCrawls
    /\ crawl_calls' = crawl_calls + 1
    /\ cpc' = "loop"
    /\ queue' = <<crawl_base>>
    /\ resources' = <<>>
    /\ cresult' = NoResult
    /\ clog' = <<>>
    /\ refused' = FALSE
    /\ UNCHANGED <<max_pages, request_delay, site_pages, site_links, visited>>
    /\ UNCHANGED <<svars, fvars>>

\* One iteration that dequeues an address already in self._visited.
CrawlSkip ==
    /\ cpc = "loop"
    /\ CrawlCond(queue, visited)
    /\ Head(queue) \in visited
    /\ queue' = Tail(queue)
    /\ UNCHANGED <<max_pages, request_delay, site_pages, site_links, visited, crawl_calls, cpc, resources,
                   cresult, clog, refused>>
    /\ UNCHANGED <<svars, fvars>>

\* One iteration whose session.get raises requests.RequestException.
CrawlFetchRaises ==
    /\ cpc = "loop"
    /\ CrawlCond(queue, visited)
    /\ Head(queue) \notin visited
    /\ "RequestException" \in FetchOutcomes(Head(queue))
    /\ queue' = Tail(queue)
    /\ clog' = Append(clog, LogEntry(Head(queue), "RequestException", <<>>))
    /\ UNCHANGED <<max_pages, request_delay, site_pages, site_links, visited, crawl_calls, cpc, resources,
                   cresult, refused>>
    /\ UNCHANGED <<svars, fvars>>

\* One iteration whose session.get raises what `except
\* requests.RequestException` does not catch: the exception leaves crawl.
CrawlFetchEscapes(kind) ==
    /\ cpc = "loop"
    /\ CrawlCond(queue, visited)
    /\ Head(queue) \notin visited
    /\ kind \in EscapingFailures \cap FetchOutcomes(Head(queue))
    /\ queue' = Tail(queue)
    /\ cpc' = "raised"
    /\ clog' = Append(clog, LogEntry(Head(queue), kind, <<>>))
    /\ UNCHANGED <<max_pages, request_delay, site_pages, site_links, visited, crawl_calls,
                   resources, cresult, refused>>
    /\ UNCHANGED <<svars, fvars>>

\* One iteration whose _fetch returns the html of a page that carries an href
\* urljoin rejects ("http://[bad"): the address is marked visited, then the
\* ValueError raised in _extract_resources leaves crawl, before resources and
\* the queue are extended.
CrawlPageRaises ==
    /\ cpc = "loop"
    /\ CrawlCond(queue, visited)
    /\ Head(queue) \notin visited
    /\ "ok" \in FetchOutcomes(Head(queue))
    /\ visited' = visited \cup {Head(queue)}
    /\ queue' = Tail(queue)
    /\ cpc' = "raised"
    /\ clog' = Append(clog, LogEntry(Head(queue), "ok", <<>>))
    /\ UNCHANGED <<max_pages, request_delay, site_pages, site_links, crawl_calls, resources,
                   cresult, refused>>
    /\ UNCHANGED <<svars, fvars>>

\* One iteration whose _fetch returns None: a response that is not ok, or
\* whose Content-Type is not text/html.
CrawlFetchNone(kind) ==
    /\ cpc = "loop"
    /\ CrawlCond(queue, visited)
    /\ Head(queue) \notin visited
    /\ kind \in FetchOutcomes(Head(queue))
    /\ queue' = Tail(queue)
    /\ visited' = visited \cup {Head(queue)}
    /\ clog' = Append(clog, LogEntry(Head(queue), kind, <<>>))
    /\ UNCHANGED <<max_pages, request_delay, site_pages, site_links, crawl_calls, cpc, resources, cresult,
                   refused>>
    /\ UNCHANGED <<svars, fvars>>

\* One iteration whose _fetch returns the html of a page with this title and
\* these anchors. The iteration ends with the delay: when time.sleep raises,
\* the exception leaves crawl after visited, resources and the queue were
\* extended.
CrawlPage(page_title, anchors) ==
    /\ cpc = "loop"
    /\ CrawlCond(queue, visited)
    /\ Head(queue) \notin visited
    /\ "ok" \in FetchOutcomes(Head(queue))
    /\ LET url == Head(queue)
           seen == visited \cup {url}
           found == extract_resources(url, page_title, anchors)
       IN /\ visited' = seen
          /\ resources' = Extend(resources, found)
          /\ queue' = Enqueue(extract_internal_links(url, anchors), seen, Tail(queue))
          /\ clog' = Append(clog, LogEntry(url, "ok", found))
          /\ refused' = IF crawl_calls = 1
                         THEN refused \/ RefusesQueued(extract_internal_links(url, anchors),
                                                       seen, Tail(queue))
                         ELSE refused
    /\ cpc' = IF SleepRaises(request_delay) = "none" THEN "loop" ELSE "raised"
    /\ UNCHANGED <<max_pages, request_delay, site_pages, site_links, crawl_calls, cresult>>
    /\ UNCHANGED <<svars, fvars>>

\* return resources, when the while test fails
CrawlReturn ==
    /\ cpc = "loop"
    /\ ~CrawlCond(queue, visited)
    /\ cpc' = "done"
    /\ cresult' = Returned(resources)
    /\ UNCHANGED <<max_pages, request_delay, site_pages, site_links, visited, crawl_calls, queue, resources,
                   clog, refused>>
    /\ UNCHANGED <<svars, fvars>>

----------------------------------------------------------------------------
\* The functions on their own: parse_listing, _extract_resources and
\* _normalize_url applied to one input.

\* An article whose link carries a fragment, and one whose link is a mail
\* address.
FragmentEl ==
    ArticleEl(TRUE, Url("", "", "/one", "", "comments"), "One", "One",
              "First page summary.", FALSE, "", "")
MailEl ==
    ArticleEl(TRUE, Url("mailto", "", "info@bfskinner.org", "", ""), "Write to us",
              "Write to us", "", FALSE, "", "")

ListingEls == ArticleEls \cup {FragmentEl, MailEl}

\* The <article> elements of a document handed to parse_listing.
ListingLists == UNION {[1..n -> ListingEls] : n \in 0..MaxArticles}

\* An <a> element, reduced to what _find_next_link reads from it: its rel and
\* class attributes, as the strings str.split() cuts them into, and its href.
LinkEl(rel, class, href) == [rel |-> rel, class |-> class, href |-> href]

LinkEls ==
    { LinkEl(<<"next">>, <<>>, RelRef("/page/2")),
      LinkEl(<<>>, <<"next">>, RelRef("/page/3")),
      LinkEl(<<"prev", "NEXT">>, <<"button">>, PageUrl(1)),
      LinkEl(<<>>, <<"next-page">>, RelRef("/page/3")),
      LinkEl(<<"next">>, <<>>, NoRef),
      LinkEl(<<>>, <<>>, RelRef("/page/2")) }

\* The <a> elements of a document handed to parse_listing.
LinkLists == UNION {[1..n -> LinkEls] : n \in 0..MaxLinks}

\* str.lower(), on the attribute tokens of the model.
Lower(token) == IF token = "NEXT" THEN "next" ELSE token

\* Scraper._contains_flag, on the tokens attribute_value.split() yields
contains_flag(tokens, flag) ==
    \E i \in 1..Len(tokens) : Lower(tokens[i]) = Lower(flag)

\* Scraper._find_next_link: the loop over root.findall(".//a"), up to the
\* href it hands to urljoin (NoRef when it returns None).
RECURSIVE NextHrefOf(_)
NextHrefOf(links) ==
    IF links = <<>> THEN NoRef
    ELSE LET link == Head(links) IN
         IF (contains_flag(link.rel, "next") \/ contains_flag(link.class, "next"))
            /\ link.href # NoRef
         THEN link.href
         ELSE NextHrefOf(Tail(links))

\* Scraper.parse_listing
parse_listing(els, links) ==
    [articles |-> extract_articles(els),
     next_url |-> find_next_link(NextHrefOf(links))]

NoListing == [articles |-> <<>>, next_url |-> NoUrl]

\* The anchors of a page handed to _extract_resources.
UpperPdfAnchor ==
    Anchor(Url("https", "cdn.example.org", "/files/HANDOUT.PDF", "", ""),
           "Handout", "Print the handout")
PdfAgainAnchor ==
    Anchor(Url("https", "cdn.example.org", "/files/handout.pdf", "", "page=2"),
           "Handout", "Print the handout")
PdfRetitledAnchor ==
    Anchor(Url("https", "cdn.example.org", "/files/handout.pdf", "", ""),
           "Download PDF", "Print the handout")
FtpPdfAnchor ==
    Anchor(Url("ftp", "cdn.example.org", "/files/handout.pdf", "", ""),
           "Handout", "Print the handout")
GuideAnchor == Anchor(RelRef("/page/3"), "Download the free guide", "")
OffsiteGuideAnchor ==
    Anchor(Url("https", "cdn.example.org", "/page/3", "", ""),
           "Download the free guide", "")
TopAnchor == Anchor(Url("", "", "", "", "top"), "Download the free guide", "")
EmptyAnchor == Anchor(NoRef, "Download the free guide", "")

ResourceAnchors ==
    { PdfAnchor, UpperPdfAnchor, PdfAgainAnchor, PdfRetitledAnchor, FtpPdfAnchor,
      GuideAnchor, OffsiteGuideAnchor, TopAnchor, EmptyAnchor, MailAnchor,
      NavLink(2) }

ResourceAnchorLists == UNION {[1..n -> ResourceAnchors] : n \in 0..MaxAnchors}

\* The page whose anchors are handed to _extract_resources.
resource_page == SitePage(2)

\* The addresses handed to _normalize_url: what urlparse can give.
RawUrls ==
    { u \in [scheme : {"", "http", "https", "ftp", "mailto"},
             netloc : {"", CrawlHost, "cdn.example.org"},
             path : {"", "/", "/page/2", "info@bfskinner.org"},
             query : {"", "page=2"},
             fragment : {"", "top"}] :
        u.netloc # "" => u.path \in {"", "/", "/page/2"} }

\* No function has been applied, and none will be.
FunctionsIdle ==
    /\ fpc = "idle"
    /\ html_articles = <<>>
    /\ html_links = <<>>
    /\ html_anchors = <<>>
    /\ raw_url = NoUrl
    /\ listing = NoListing
    /\ page_records = <<>>
    /\ resource_types = <<>>
    /\ clean_url = NoUrl

\* One input for one of the functions.
FunctionsInit ==
    /\ listing = NoListing
    /\ page_records = <<>>
    /\ resource_types = <<>>
    /\ clean_url = NoUrl
    /\ \/ /\ fpc = "listing"
          /\ \/ html_articles \in ListingLists /\ html_links = <<>>
             \/ html_articles = <<>> /\ html_links \in LinkLists
          /\ html_anchors = <<>>
          /\ raw_url = NoUrl
       \/ /\ fpc = "page"
          /\ html_anchors \in ResourceAnchorLists
          /\ html_articles = <<>>
          /\ html_links = <<>>
          /\ raw_url = NoUrl
       \/ /\ fpc = "address"
          /\ raw_url \in RawUrls
          /\ html_articles = <<>>
          /\ html_links = <<>>
          /\ html_anchors = <<>>

\* parse_listing(html)
ParseListing ==
    /\ fpc = "listing"
    /\ fpc' = "parse_listing"
    /\ listing' = parse_listing(html_articles, html_links)
    /\ UNCHANGED <<html_articles, html_links, html_anchors, raw_url,
                   page_records, resource_types, clean_url>>
    /\ UNCHANGED <<svars, cvars>>

\* _extract_resources(page_url, page_title, soup), with the value
\* _classify_resource returned for each anchor it was called on
ExtractResources(page_title) ==
    /\ fpc = "page"
    /\ fpc' = "extract_resources"
    /\ page_records' = extract_resources(resource_page, page_title, html_anchors)
    /\ resource_types' =
          [i \in 1..Len(html_anchors) |->
              IF html_anchors[i].href = NoRef THEN NoneText
              ELSE classify_resource(UrlJoin(resource_page, html_anchors[i].href),
                                     html_anchors[i].text)]
    /\ UNCHANGED <<html_articles, html_links, html_anchors, raw_url, listing,
                   clean_url>>
    /\ UNCHANGED <<svars, cvars>>

\* _normalize_url(url)
NormalizeUrl ==
    /\ fpc = "address"
    /\ fpc' = "normalize_url"
    /\ clean_url' = normalize_url(raw_url)
    /\ UNCHANGED <<html_articles, html_links, html_anchors, raw_url, listing,
                   page_records, resource_types>>
    /\ UNCHANGED <<svars, cvars>>

\* _normalize_url(url), called on the value it returned
NormalizeAgain ==
    /\ fpc = "normalize_url"
    /\ fpc' = "normalize_url again"
    /\ raw_url' = clean_url
    /\ clean_url' = normalize_url(clean_url)
    /\ UNCHANGED <<html_articles, html_links, html_anchors, listing,
                   page_records, resource_types>>
    /\ UNCHANGED <<svars, cvars>>

----------------------------------------------------------------------------
\* Specifications.

NextScrape ==
    \/ ScrapeStart
    \/ \E els \in ShortLists : ScrapePage(els)
    \/ \E kind \in FetchFailures : ScrapeFetchFails(kind)
    \/ \E kind \in ParseFailures : ScrapeParseFails(kind)
    \/ ScrapeReturn

\* The paginator on every site, beside a crawler that is never called.
InitScrape ==
    /\ SiteInit
    /\ ScrapeIdle
    /\ CrawlIdle
    /\ FunctionsIdle
    /\ site_pages = NumSitePages
    /\ site_links = NoSite
    /\ max_pages = 0
    /\ request_delay = DefaultDelay

SpecScrape == InitScrape /\ [][NextScrape]_vars

\* scrape runs on one thread and each step is its next statement: it is taken.
FairScrape == SpecScrape /\ WF_vars(NextScrape)

NextArticles ==
    \/ ScrapeStart
    \/ \E els \in ArticleLists : ScrapePage(els)
    \/ \E kind \in FetchFailures : ScrapeFetchFails(kind)
    \/ \E kind \in ParseFailures : ScrapeParseFails(kind)
    \/ ScrapeReturn

\* The paginator on the chain sites, with every listing page content.
InitArticles ==
    /\ ChainInit
    /\ ScrapeIdle
    /\ CrawlIdle
    /\ FunctionsIdle
    /\ site_pages = NumSitePages
    /\ site_links = NoSite
    /\ max_pages = 0
    /\ request_delay = DefaultDelay

SpecArticles == InitArticles /\ [][NextArticles]_vars

NoneKinds == {"not_ok", "non_html"}

NextCrawl ==
    \/ CrawlStart
    \/ CrawlSkip
    \/ CrawlFetchRaises
    \/ \E kind \in EscapingFailures : CrawlFetchEscapes(kind)
    \/ CrawlPageRaises
    \/ \E kind \in NoneKinds : CrawlFetchNone(kind)
    \/ \E page_title \in PageTitles, anchors \in PageAnchorLists(site_pages) :
           CrawlPage(page_title, anchors)
    \/ CrawlReturn

\* The crawler in every configuration, beside a paginator that is never called.
InitCrawl ==
    /\ ConfigInit
    /\ base_url = PageUrl(1)
    /\ site_links = NoSite
    /\ CrawlIdle
    /\ ScrapeIdle
    /\ FunctionsIdle
    /\ nextHref = [p \in PageUrls |-> NoRef]
    /\ start_url = NoUrl

SpecCrawl == InitCrawl /\ [][NextCrawl]_vars

\* The anchor lists of a page that links pages and a mail address only: the
\* frontier of crawl depends on no other anchor.
LinkOnlyLists(n) ==
    {a \in PageAnchorLists(n) : \A i \in 1..Len(a) : a[i] # PdfAnchor}

NextLinks ==
    \/ CrawlStart
    \/ CrawlSkip
    \/ CrawlFetchRaises
    \/ \E kind \in EscapingFailures : CrawlFetchEscapes(kind)
    \/ CrawlPageRaises
    \/ \E kind \in NoneKinds : CrawlFetchNone(kind)
    \/ \E page_title \in PageTitles, anchors \in LinkOnlyLists(site_pages) :
           CrawlPage(page_title, anchors)
    \/ CrawlReturn

SpecLinks == InitCrawl /\ [][NextLinks]_vars

\* crawl runs on one thread and each step is its next statement: it is taken.
FairLinks == SpecLinks /\ WF_vars(NextLinks)

NextSite ==
    \/ CrawlStart
    \/ CrawlSkip
    \/ CrawlFetchRaises
    \/ \E kind \in EscapingFailures : CrawlFetchEscapes(kind)
    \/ CrawlPageRaises
    \/ \E kind \in NoneKinds : CrawlFetchNone(kind)
    \/ \E page_title \in PageTitles : CrawlPage(page_title, site_links[Head(queue)])
    \/ CrawlReturn

\* The crawler on every site whose pages stay as they are, with max_pages the
\* number of its pages, beside a paginator that is never called.
InitSite ==
    /\ site_pages = FixedSitePages
    /\ max_pages = FixedSitePages
    /\ request_delay \in Delays
    /\ site_links \in FixedSites(FixedSitePages)
    /\ base_url = PageUrl(1)
    /\ CrawlIdle
    /\ ScrapeIdle
    /\ FunctionsIdle
    /\ nextHref = [p \in PageUrls |-> NoRef]
    /\ start_url = NoUrl

SpecSite == InitSite /\ [][NextSite]_vars

NextFunctions ==
    \/ ParseListing
    \/ \E page_title \in PageTitles : ExtractResources(page_title)
    \/ NormalizeUrl
    \/ NormalizeAgain

\* One function applied to one input, beside a paginator and a crawler that
\* are never called.
InitFunctions ==
    /\ base_url \in BaseUrls
    /\ FunctionsInit
    /\ ScrapeIdle
    /\ CrawlIdle
    /\ nextHref = [p \in PageUrls |-> NoRef]
    /\ start_url = NoUrl
    /\ site_pages = NumSitePages
    /\ site_links = NoSite
    /\ max_pages = 0
    /\ request_delay = DefaultDelay

SpecFunctions == InitFunctions /\ [][NextFunctions]_vars

----------------------------------------------------------------------------
\* Properties of Scraper.scrape.

\* The page scrape starts at: start_url or self.base_url.
StartPage == IF start_url # NoUrl THEN start_url ELSE base_url

\* The next-chain from page p up to, not including, its first repeated page.
RECURSIVE RepeatFreePrefix(_, _)
RepeatFreePrefix(p, before) ==
    IF p = NoUrl \/ p \in before THEN <<>>
    ELSE <<p>> \o RepeatFreePrefix(NextOf(p), before \cup {p})

NextChain == RepeatFreePrefix(StartPage, {})

\* V: the distinct pages on the next-chain from the start before a repeat.
V == Cardinality({Served(NextChain[i]) : i \in 1..Len(NextChain)})

Occurrences(seq, x) == Cardinality({i \in 1..Len(seq) : seq[i] = x})

IsPrefix(a, b) == Len(a) <= Len(b) /\ \A i \in 1..Len(a) : a[i] = b[i]

ScrapeHalted == spc \in {"done", "raised"}

\* C1: on every next-link graph, cyclic ones included, and from every start
\* address, scrape eventually returns or raises, and it never issues more
\* than V + 1 fetches.
C1_PaginatorTerminates ==
    /\ <>ScrapeHalted
    /\ [](Len(fetched) <= V + 1)

\* C1 witness: scrape has returned on a site whose next-chain runs into a
\* page it already visited, after V + 1 fetches for its V >= 2 pages: the
\* first page was fetched at the base address without path and again at "/".
C1_Witness ==
    /\ spc = "done"
    /\ V >= 2
    /\ Len(fetched) = V + 1
    /\ NextOf(fetched[Len(fetched)]) \in visited_pages

\* C5 (part): the records are pairwise distinct by url.
DistinctUrls(recs) ==
    \A i, j \in 1..Len(recs) : recs[i].url = recs[j].url => i = j

\* C5: no two records of the accumulated (and of the returned) list share a
\* url, and the record kept for a url is the one built from the first
\* complete element that carried it; later ones are skipped.
C5_ArticleDedup ==
    /\ DistinctUrls(collected)
    /\ \A i \in 1..Len(collected) : collected[i] = firstRec[collected[i].url]
    /\ spc = "done" => sresult = Returned(collected)

\* C5 witness: scrape has returned two records after reading an address again
\* on the page that first carried it and again on a later page.
C5_Witness ==
    /\ spc = "done"
    /\ Len(sresult.value) = 2
    /\ dupKinds = {"same page", "earlier page"}

\* C6: the accumulated (and the returned) list is in first-discovery order:
\* a record precedes another one only if the first complete element with
\* its url was read before the other's, by fetch order, then document order.
C6_DiscoveryOrder ==
    /\ \A i, j \in 1..Len(collected) :
          i < j => Precedes(firstPos[collected[i].url], firstPos[collected[j].url])
    /\ spc = "done" => sresult = Returned(collected)

\* C6 witness: scrape has returned two records, the second one first read on
\* a later page than the first, both addresses having been read again since.
C6_Witness ==
    /\ spc = "done"
    /\ Len(sresult.value) = 2
    /\ firstPos[sresult.value[1].url].page < firstPos[sresult.value[2].url].page
    /\ "earlier page" \in dupKinds

\* C7 (part): a step that processes a page (fetches and parses it) leaves the
\* loop exactly when the page has no next pointer or its next pointer is a
\* page visited in this run, the page itself included; otherwise the next
\* pointer becomes the page to fetch, and it is fetched.
TransitionRule ==
    (spc = "loop" /\ fetched' # fetched /\ spc' # "raised") =>
        LET next == NextOf(next_page) IN
        IF next = NoUrl \/ next \in visited_pages \cup {next_page}
        THEN spc' = "return"
        ELSE /\ spc' = "loop"
             /\ next_page' = next
             /\ LoopCond(next_page', visited_pages')

\* C7: the transition rule holds at every step, no address is fetched twice,
\* the fetched addresses are a prefix of the next-chain from the start, in
\* chain order, and they are the whole repeat-free prefix once scrape returns.
C7_CycleGuard ==
    /\ [][TransitionRule]_vars
    /\ [](/\ IsPrefix(fetched, NextChain)
          /\ \A i, j \in 1..Len(fetched) : fetched[i] = fetched[j] => i = j
          /\ (spc \in {"return", "done"} => fetched = NextChain))

\* C7 witness: scrape has left the loop because the next pointer of the last
\* page is a page visited earlier, and another run of it still loops.
C7_Witness ==
    /\ spc = "return"
    /\ Len(fetched) >= 2
    /\ NextOf(next_page) \in visited_pages \ {next_page}

\* C8: once the fetch or the parse of a page has failed, whatever the
\* failure, scrape has raised ScraperError at that page: nothing is returned, the failing page is the
\* last address fetched and was fetched once.
C8_FailureIsFatal ==
    failedPage # NoUrl =>
        /\ spc = "raised"
        /\ serror.type = "ScraperError"
        /\ sresult = NoResult
        /\ fetched # <<>>
        /\ fetched[Len(fetched)] = failedPage
        /\ Occurrences(fetched, failedPage) = 1

\* C9: the error that leaves scrape carries the address of the failing page.
C9_ErrorCarriesUrl == spc = "raised" => serror.url = failedPage

----------------------------------------------------------------------------
\* Properties of BFSkinnerScraper.crawl.  clog holds the session.get calls
\* of the current call of crawl.

\* The records of the pages fetched with success, in fetch order.
RECURSIVE LoggedRecords(_)
LoggedRecords(log) ==
    IF log = <<>> THEN <<>> ELSE Head(log).records \o LoggedRecords(Tail(log))

\* C2: within one call of crawl no address is fetched more than once, and
\* the visited set only ever grows.
C2_FetchAtMostOnce ==
    /\ [](\A i, j \in 1..Len(clog) : clog[i].url = clog[j].url => i = j)
    /\ [][visited \subseteq visited']_vars

\* C3: one call of crawl issues at most max_pages fetches, failed ones
\* included.
C3_FetchBound == Len(clog) <= max_pages

\* C4 (part): from a loop state whose visited count has reached max_pages the
\* only step is the normal return of the accumulated resources, whatever the
\* frontier holds.
StopsAtBound ==
    (cpc = "loop" /\ Cardinality(visited) >= max_pages) =>
        (cpc' = "done" /\ cresult' = Returned(resources) /\ clog' = clog)

\* C4: the visited count never exceeds max_pages; crawl stops and returns as
\* soon as the count reaches it; what it returns are records of visited
\* pages only; and the first crawl of a scraper with max_pages = 1 fetches
\* exactly one page, the start page, and returns that page's records.
C4_GracefulTruncation ==
    /\ [][StopsAtBound]_vars
    /\ [](/\ Cardinality(visited) <= max_pages
          /\ cpc = "done" =>
                /\ cresult = Returned(resources)
                /\ \A i \in 1..Len(resources) : resources[i].page_url \in visited
          /\ (cpc = "done" /\ crawl_calls = 1 /\ max_pages = 1) =>
                /\ Len(clog) = 1
                /\ clog[1].url = crawl_base
                /\ cresult.value = clog[1].records)

\* C4 witness: with max_pages = 1 the first crawl has returned the records of
\* a start page that links to 5 other pages, all of them left in the frontier.
C4_Witness ==
    /\ cpc = "done"
    /\ crawl_calls = 1
    /\ max_pages = 1
    /\ Len(queue) = 5
    /\ \A i \in 1..Len(queue) : queue[i] \in {SitePage(k) : k \in 2..site_pages}
    /\ cresult.value # <<>>

\* C10: no failed fetch makes crawl raise, and after a failed fetch the crawl
\* has not stopped: while the frontier is not empty the loop goes on with its
\* next entry; and what crawl returns are the records of every page fetched
\* with success, before and after.
C10_FailureIsolation ==
    /\ cpc # "raised"
    /\ (cpc = "loop" /\ clog # <<>> /\ clog[Len(clog)].outcome # "ok"
            /\ queue # <<>>) => CrawlCond(queue, visited)
    /\ cpc = "done" => cresult.value = LoggedRecords(clog)

\* C11 (part): a step that adds an address to the visited set is the fetch of
\* that address with an html answer, and a step whose fetch fails (network
\* error, answer that is not ok, answer that is not html) leaves the address
\* out of the visited set.
MarksOnlySuccess ==
    LET last == clog'[Len(clog')] IN
    /\ visited' # visited =>
          /\ Len(clog') = Len(clog) + 1
          /\ last.outcome = "ok"
          /\ visited' = visited \cup {last.url}
    /\ (Len(clog') = Len(clog) + 1 /\ last.outcome # "ok") =>
          /\ last.url \notin visited'
          /\ Cardinality(visited') = Cardinality(visited)

\* C11: an address enters the visited set, and counts toward max_pages, only
\* when its fetch succeeded with html content; for each failure kind the
\* address is skipped and not marked visited.
C11_VisitedOnlyOnSuccess == [][MarksOnlySuccess]_vars

----------------------------------------------------------------------------
\* Properties of the functions.

\* An absolute, normalized address: scheme, host and path, no fragment.
Normalized(u) ==
    u.scheme # "" /\ u.netloc # "" /\ u.path # "" /\ u.fragment = ""

\* C12 (part): every address field of the records _extract_resources returns
\* is absolute and normalized.
ResourceUrlsNormalized ==
    fpc = "extract_resources" =>
        \A i \in 1..Len(page_records) :
            /\ Normalized(page_records[i].page_url)
            /\ Normalized(page_records[i].resource_url)

\* C12: every address field of every emitted record, the url of the records
\* of parse_listing and the page_url and resource_url of the records of
\* _extract_resources, is absolute and normalized, whatever the href was.
C12_NormalizedUrls ==
    /\ fpc = "parse_listing" =>
          \A i \in 1..Len(listing.articles) : Normalized(listing.articles[i].url)
    /\ ResourceUrlsNormalized

\* C13: for every address u, with or without scheme, host, path, query or
\* fragment, _normalize_url(_normalize_url(u)) equals _normalize_url(u): the
\* second call returns its argument, the result of the first.
C13_NormalizeIdempotent ==
    fpc = "normalize_url again" => clean_url = raw_url

\* C13 witness: the second call has returned, on an address the first call
\* changed: it came without scheme and path and with a fragment.
C13_Witness ==
    /\ fpc = "normalize_url again"
    /\ raw_url = Url("https", CrawlHost, "/", "page=2", "")
    /\ clean_url = raw_url

\* C14 (part): a call of crawl starts with an empty visited set and a
\* frontier that holds the start address only.
StartsUnvisited ==
    (cpc # "loop" /\ cpc' = "loop") =>
        (visited' = {} /\ queue' = <<crawl_base>>)

\* C14: the visited set belongs to one call of crawl: every call, the second
\* one on the same scraper included, starts with an empty visited set, and
\* so, when max_pages lets it fetch at all, it has fetched the start address
\* first by the time it returns.
C14_VisitedPerCrawl ==
    /\ [][StartsUnvisited]_vars
    /\ []((cpc = "done" /\ max_pages >= 1) =>
             (clog # <<>> /\ clog[1].url = crawl_base))

\* The records of seq that point to the address u.
PointingTo(seq, u) == SelectSeq(seq, LAMBDA r : r.resource_url = u)

\* The addresses the records of seq point to.
ResourceUrlsOf(seq) == {seq[i].resource_url : i \in 1..Len(seq)}

\* Number of pages fetched with success whose records point to u.
SourcePages(log, u) ==
    Cardinality({i \in 1..Len(log) : PointingTo(log[i].records, u) # <<>>})

\* C15: the accumulated list, and the list crawl returns, is the
\* concatenation, in the order the pages were visited, of the lists extracted
\* from each page; nothing is merged across pages: a record points to an
\* address at least once per visited page that links it as a resource.
C15_OutputConcatenation ==
    /\ resources = LoggedRecords(clog)
    /\ cpc = "done" => cresult = Returned(LoggedRecords(clog))
    /\ \A u \in ResourceUrlsOf(LoggedRecords(clog)) :
          Len(PointingTo(resources, u)) >= SourcePages(clog, u)

\* C15 witness: crawl has returned two records for the same file, found on
\* two different pages, in the order the pages were fetched.
C15_Witness ==
    /\ cpc = "done"
    /\ Len(clog) >= 2
    /\ Len(cresult.value) = 2
    /\ cresult.value[1].resource_url = cresult.value[2].resource_url
    /\ cresult.value[1].page_url = clog[1].url
    /\ cresult.value[2].page_url = clog[Len(clog)].url
    /\ clog[1].url # clog[Len(clog)].url

\* C16: among the records _extract_resources returns for one page no two are
\* equal in all six fields, and every anchor that is a resource has its
\* record in the list: anchors to one address that differ in text or
\* description are all kept.
C16_PerPageDedup ==
    fpc = "extract_resources" =>
        /\ \A i, j \in 1..Len(page_records) :
              page_records[i] = page_records[j] => i = j
        /\ \A i \in 1..Len(html_anchors) :
              resource_types[i] # NoneText =>
                 \E k \in 1..Len(page_records) :
                    /\ page_records[k].resource_url =
                          normalize_url(UrlJoin(resource_page, html_anchors[i].href))
                    /\ page_records[k].resource_title = html_anchors[i].text
                    /\ page_records[k].description =
                          derive_description(html_anchors[i])
                    /\ page_records[k].resource_type = resource_types[i]

\* C16 witness: of three anchors to one file, the second one differing from
\* the first by a fragment only and the third one by its text, the first and
\* the third have a record.
C16_Witness ==
    /\ fpc = "extract_resources"
    /\ html_anchors = <<PdfAnchor, PdfAgainAnchor, PdfRetitledAnchor>>
    /\ Len(page_records) = 2
    /\ page_records[1].resource_url = page_records[2].resource_url
    /\ page_records[1].resource_title = "Handout"
    /\ page_records[2].resource_title = "Download PDF"

\* The type the classification rule gives an anchor with a non-empty href:
\* the extension tag when the lowercased path ends with a recognized
\* extension; else `page` when the text holds a hint keyword and the address
\* is internal; else none.
RuleType(resource_url, anchor_text) ==
    LET exts == LowerSuffixes(resource_url.path) \cap RESOURCE_EXTENSIONS IN
    IF exts # {} THEN ExtTag(CHOOSE ext \in exts : TRUE)
    ELSE IF LowerSubstrings(anchor_text) \cap KEYWORD_HINTS # {}
            /\ is_internal_url(resource_url)
         THEN "page"
         ELSE NoneText

\* C17: for every anchor with a non-empty href _classify_resource returns
\* what the rule gives for the resolved address and the anchor text, whatever
\* the scheme or the host of the address.
C17_Classification ==
    fpc = "extract_resources" =>
        \A i \in 1..Len(html_anchors) :
            html_anchors[i].href # NoRef =>
                resource_types[i] =
                    RuleType(UrlJoin(resource_page, html_anchors[i].href),
                             html_anchors[i].text)

\* Index of the first anchor of links whose rel or class holds the token
\* `next` (0: none).
FirstNextAnchor(links) ==
    LET hits == {i \in 1..Len(links) :
                    contains_flag(links[i].rel, "next")
                        \/ contains_flag(links[i].class, "next")}
    IN IF hits = {} THEN 0 ELSE CHOOSE i \in hits : \A j \in hits : i <= j

\* C18: the next link parse_listing returns is the resolved address of the
\* first anchor, in document order, whose rel or class token list holds the
\* token `next`, and none when no anchor holds it; when that first anchor has
\* no href to resolve the result is none or the base address, never the
\* address of another anchor.
C18_NextLinkSelection ==
    fpc = "parse_listing" =>
        LET first == FirstNextAnchor(html_links) IN
        IF first = 0 THEN listing.next_url = NoUrl
        ELSE IF html_links[first].href # NoRef
             THEN listing.next_url = UrlJoin(base_url, html_links[first].href)
             ELSE listing.next_url \in {NoUrl, base_url}

\* The element has what the article rule asks for: an anchor in its heading
\* with visible text and an href.
AnchorComplete(el) == el.has_link /\ el.link_text # "" /\ el.href # NoRef

\* Index in els of the first such element whose address is u (0: none).
FirstAnchorComplete(els, u) ==
    LET hits == {i \in 1..Len(els) :
                    AnchorComplete(els[i]) /\ UrlJoin(base_url, els[i].href) = u}
    IN IF hits = {} THEN 0 ELSE CHOOSE i \in hits : \A j \in hits : i <= j

\* C19: parse_listing returns a record for an address exactly when an
\* article element with that address has an anchor in its heading with
\* visible text and an href; the other elements are skipped, and the records
\* are in the document order of those elements.
C19_IncompleteSkipped ==
    fpc = "parse_listing" =>
        /\ {listing.articles[i].url : i \in 1..Len(listing.articles)} =
              {UrlJoin(base_url, html_articles[i].href) :
                  i \in {j \in 1..Len(html_articles) : AnchorComplete(html_articles[j])}}
        /\ \A i, j \in 1..Len(listing.articles) :
              i < j => FirstAnchorComplete(html_articles, listing.articles[i].url)
                          < FirstAnchorComplete(html_articles, listing.articles[j].url)

\* C20 (part): a step of the first call of crawl does not take the
\* skip-if-visited branch: it does not drop the head of the queue without
\* fetching it.
NeverSkips ==
    (crawl_calls = 1 /\ cpc = "loop" /\ queue # <<>> /\ queue' = Tail(queue)) =>
        (Len(clog') = Len(clog) + 1 /\ clog'[Len(clog')].url = Head(queue))

\* C20: during a crawl on a new scraper the queue never holds an address
\* twice nor an address of the visited set, and every address taken from the
\* queue is fetched, never skipped as visited.
C20_FrontierNoDuplicates ==
    /\ [](crawl_calls = 1 =>
             /\ \A i, j \in 1..Len(queue) : queue[i] = queue[j] => i = j
             /\ \A i \in 1..Len(queue) : queue[i] \notin visited)
    /\ [][NeverSkips]_vars

\* C20 witness: in the first call, after two pages, the queue holds two
\* addresses and a link to an address it held already has been left out.
C20_Witness ==
    /\ crawl_calls = 1
    /\ cpc = "loop"
    /\ refused
    /\ Cardinality(visited) = 2
    /\ Len(queue) = 2

\* Every call of crawl ends, whatever the links of the pages (cycles
\* included), whatever max_pages, and whichever fetches fail: it returns, or
\* an exception leaves it (one of session.get that is not a RequestException,
\* one of urljoin, one of time.sleep).
CrawlCallEnds == (cpc = "loop") ~> (cpc \in {"done", "raised"})

\* C22: every call of crawl eventually returns, whatever the links of the
\* pages (cycles included), whatever max_pages, and whichever fetches fail:
\* the loop reaches the return statement and no call ends by raising.
C22_CrawlerTerminates ==
    /\ (cpc = "loop") ~> (cpc = "done")
    /\ [](cpc # "raised")

\* C23: every address that crawl puts in the queue or fetches, other than the
\* seed, is an absolute normalized http or https address on the host of the
\* base address, whatever the hrefs of the pages (mail links included).
C23_StaysOnSite ==
    /\ \A i \in 1..Len(queue) :
          queue[i] # crawl_base =>
              /\ Normalized(queue[i])
              /\ queue[i].scheme \in {"http", "https"}
              /\ queue[i].netloc = CrawlHost
    /\ \A i \in 1..Len(clog) :
          clog[i].url # crawl_base =>
              /\ Normalized(clog[i].url)
              /\ clog[i].url.scheme \in {"http", "https"}
              /\ clog[i].url.netloc = CrawlHost

\* The addresses a page of a site links.
Successors(site, u) ==
    LET links == extract_internal_links(u, site[u])
    IN {links[i] : i \in 1..Len(links)} \cap DOMAIN site

\* The pages of a site at link distance d or less from the base address.
RECURSIVE Within(_, _)
Within(site, d) ==
    IF d = 0 THEN {crawl_base}
    ELSE LET near == Within(site, d - 1)
         IN near \cup UNION {Successors(site, u) : u \in near}

\* The link distance of a reachable page from the base address.
Distance(site, u) ==
    CHOOSE d \in 0..Cardinality(DOMAIN site) :
        /\ u \in Within(site, d)
        /\ \A e \in 0..(d - 1) : u \notin Within(site, e)

\* C21: in one call of crawl the pages are read in non-decreasing link
\* distance from the base address: no page is read before a page nearer to
\* the base address, whatever the links of the site and whichever fetches
\* fail.
C21_BreadthFirstOrder ==
    site_links # NoSite =>
        \A i, j \in 1..Len(clog) :
            (i < j /\ clog[i].outcome = "ok" /\ clog[j].outcome = "ok") =>
                Distance(site_links, clog[i].url) <= Distance(site_links, clog[j].url)
====
